---- MODULE Spec2Model ----
(***************************************************************************)
(* gpu-finder: discovery of the zones that can serve a machine type with   *)
(* a GPU type and count, priced and ranked by hourly cost.                 *)
(*                                                                         *)
(* A Python str is a string; where the code slices, searches or parses it  *)
(* (machine types, GPU types, zone names, SKU descriptions), Chars gives   *)
(* its characters as a sequence and Str turns a sequence back.             *)
(* Prices are Python floats nanos / 1e9; they are kept as exact decimals   *)
(* [units, nanos] (binary rounding is not modelled).                       *)
(***************************************************************************)
EXTENDS Integers, Sequences, FiniteSets, TLC

VARIABLES
    config,            \* gpu_config["instance_config"]
    zonePages,         \* catalog: the pages of zones().list
    machinePages,      \* catalog: zone name -> the pages of machineTypes().list
    acceleratorPages,  \* catalog: zone name -> the pages of acceleratorTypes().list
    skuCatalog,        \* billing: the "skus" of services().skus().list
    pc,                \* position of main
    error,             \* the exception that ended the run, "" when none
    request,           \* the pending list request: a page number, 0 for None
    zone_list,         \* get_zone_info's accumulator
    compute_zones,     \* main's compute_zones
    zi,                \* index of the for loop over zones / candidates
    available_zones,   \* check_machine_type_and_accelerator's accumulator
    accelerator_list,  \* get_accelerator_quota's accumulator, priced by main
    ai,                \* index of main's pricing loop
    quote,             \* the last (machine_price, gpu_price) returned
    pricing_info,      \* process_pricing's result
    calls,             \* history: every request executed, in order
    drains             \* history: per pagination loop, requests issued and items visited

vars == <<config, zonePages, machinePages, acceleratorPages, skuCatalog, pc, error,
          request, zone_list, compute_zones, zi, available_zones, accelerator_list,
          ai, quote, pricing_info, calls, drains>>

(***************************************************************************)
(* Bounds of the model.                                                    *)
(***************************************************************************)
MaxPages == 2      \* pages of one listing
MaxItems == 2      \* items of one listing, over all its pages
MaxGpus == 2       \* requested GPU counts and cards per instance
MaxDigits == 2     \* digits of the count embedded in an a2 machine type
MaxCandidates == 3 \* candidates handed to process_pricing on its own
MaxSkus == 2       \* SKUs of a catalog handed to get_pricing_info on its own

(***************************************************************************)
(* Python string operations.                                               *)
(***************************************************************************)
Min(a, b) == IF a < b THEN a ELSE b
Max(a, b) == IF a > b THEN a ELSE b

\* s.startswith(p)
StartsWith(s, p) == Len(p) <= Len(s) /\ SubSeq(s, 1, Len(p)) = p

\* s.find(sub): the lowest 0-based index where sub occurs, -1 when it does not
Find(s, sub) ==
    LET hits == {i \in 0..(Len(s) - Len(sub)) : SubSeq(s, i + 1, i + Len(sub)) = sub}
    IN  IF hits = {} THEN -1 ELSE CHOOSE i \in hits : \A j \in hits : i <= j

\* sub in s
Contains(s, sub) == Find(s, sub) # -1

\* a slice bound as Python normalises it: negative counts from the end, then clamped
SliceIndex(i, n) == IF i < 0 THEN Max(i + n, 0) ELSE Min(i, n)

\* s[lo:hi]
PySlice(s, lo, hi) == SubSeq(s, SliceIndex(lo, Len(s)) + 1, SliceIndex(hi, Len(s)))

Digits == <<"0", "1", "2", "3", "4", "5", "6", "7", "8", "9">>

IsDigit(c) == \E d \in 1..10 : Digits[d] = c

DigitValue(c) == (CHOOSE d \in 1..10 : Digits[d] = c) - 1

RECURSIVE DecimalValue(_)
DecimalValue(s) ==
    IF s = <<>> THEN 0 ELSE 10 * DecimalValue(SubSeq(s, 1, Len(s) - 1)) + DigitValue(s[Len(s)])

\* int(s) for a str: an optional sign and decimal digits; anything else raises
\* ValueError (ok = FALSE). Surrounding whitespace and "_" separators, which int()
\* also accepts, do not occur in the machine types drawn here.
PyInt(s) ==
    LET signed == s # <<>> /\ s[1] \in {"+", "-"}
        body == IF signed THEN Tail(s) ELSE s
    IN  IF body = <<>> \/ \E i \in 1..Len(body) : ~IsDigit(body[i])
        THEN [ok |-> FALSE, value |-> 0]
        ELSE [ok |-> TRUE,
              value |-> IF signed /\ s[1] = "-" THEN 0 - DecimalValue(body)
                        ELSE DecimalValue(body)]

(***************************************************************************)
(* Names, and the characters of every string a run can hold.               *)
(***************************************************************************)
A2_HIGHGPU_1G == "a2-highgpu-1g"
A2_MEGAGPU_16G == "a2-megagpu-16g"
N1_STANDARD_4 == "n1-standard-4"
N1_STANDARD_8 == "n1-standard-8"
TESLA_A100 == "nvidia-tesla-a100"
TESLA_T4 == "nvidia-tesla-t4"
TESLA_V100 == "nvidia-tesla-v100"
ZoneA == "us1-a"
ZoneB == "us1-b"
ZoneC == "eu2-c"
ZoneD == "eu2-d"
A2_MACHINE_SKU == "Compute a2-highgpu-1g running"
A100_GPU_SKU == "nvidia-tesla-a100 GPU running"

A2_HIGHGPU_ == <<"a","2","-","h","i","g","h","g","p","u","-">>

DigitAlphabet == {"0", "1", "2", "4", "6", "8"}

DigitStrings == UNION {[1..k -> DigitAlphabet] : k \in 1..MaxDigits}

RECURSIVE Str(_)
Str(chars) == IF chars = <<>> THEN "" ELSE chars[1] \o Str(Tail(chars))

Chars(s) ==
    CASE s = "a2-highgpu-1g" -> <<"a","2","-","h","i","g","h","g","p","u","-","1","g">>
      [] s = "a2-megagpu-16g" -> <<"a","2","-","m","e","g","a","g","p","u","-","1","6","g">>
      [] s = "n1-standard-4" -> <<"n","1","-","s","t","a","n","d","a","r","d","-","4">>
      [] s = "nvidia-tesla-a100" -> <<"n","v","i","d","i","a","-","t","e","s","l","a","-","a","1","0","0">>
      [] s = "nvidia-tesla-t4" -> <<"n","v","i","d","i","a","-","t","e","s","l","a","-","t","4">>
      [] s = "us1-a" -> <<"u","s","1","-","a">>
      [] s = "us1-b" -> <<"u","s","1","-","b">>
      [] s = "eu2-c" -> <<"e","u","2","-","c">>
      [] s = "eu2-d" -> <<"e","u","2","-","d">>
      [] s = "Compute a2-highgpu-1g running" -> <<"C","o","m","p","u","t","e"," ","a","2","-","h","i","g","h","g","p","u","-","1","g"," ","r","u","n","n","i","n","g">>
      [] s = "nvidia-tesla-a100 GPU running" -> <<"n","v","i","d","i","a","-","t","e","s","l","a","-","a","1","0","0"," ","G","P","U"," ","r","u","n","n","i","n","g">>
      [] s = "a2" -> <<"a","2">>
      [] s = "highgpu" -> <<"h","i","g","h","g","p","u">>
      [] s = "Compute " -> <<"C","o","m","p","u","t","e"," ">>
      [] s = "GPU" -> <<"G","P","U">>
      [] OTHER -> CHOOSE c \in {A2_HIGHGPU_ \o d \o <<"g">> : d \in DigitStrings} :
                      Str(c) = s

(***************************************************************************)
(* check_gpu_config                                                        *)
(***************************************************************************)
\* machine_type[machine_type.find("highgpu") + 8 : len(machine_type) - 1]
GpusInMachineTypeFromSeven(machine_type) ==
    PySlice(machine_type, Find(machine_type, Chars("highgpu")) + 7,
            Len(machine_type) - 1)

GpusInMachineType(machine_type) ==
    PySlice(machine_type, Find(machine_type, Chars("highgpu")) + 8,
            Len(machine_type) - 1)

\* "" when the check returns, else the exception it raises: the configuration
\* error of line 27, or int()'s ValueError
check_gpu_config(cfg) ==
    IF StartsWith(Chars(cfg.machine_type), Chars("a2"))
    THEN LET parsed == PyInt(GpusInMachineType(Chars(cfg.machine_type)))
         IN  IF ~parsed.ok THEN "ValueError"
             ELSE IF cfg.number_of_gpus # parsed.value THEN "ConfigurationError"
             ELSE ""
    ELSE ""

(***************************************************************************)
(* The catalog client: a listing is a fixed sequence of pages. A page      *)
(* carries "items" or, as the test at gpu-finder.py:96 allows for, no      *)
(* "items" key at all; nextPageToken is the number of the page that        *)
(* follows, 0 when the response has no token.                              *)
(***************************************************************************)
\* request.execute(): the response to the request for page number req
Execute(pages, req) == pages[req]

\* list_next(previous_request, previous_response): the next request, 0 for None
ListNext(response) == response.nextPageToken

\* the terminal positions of main
Terminal == {"done", "failed"}

(***************************************************************************)
(* get_zone_info                                                           *)
(***************************************************************************)
\* region: the zone name without its last two characters
Region(name) == Str(PySlice(Chars(name), 0, Len(name) - 2))

ZoneRecord(zone) == [region |-> Region(zone.name), zone |-> zone.name]

ZoneKeptWhateverStatus(zone) == zone.status \in {"UP", "DOWN"}

ZoneKept(zone) == zone.status = "UP"

\* the body of "for zone in response['items']", over the items of one page
RECURSIVE UpZones(_)
UpZones(items) ==
    IF items = <<>> THEN <<>>
    ELSE (IF ZoneKept(items[1]) THEN <<ZoneRecord(items[1])>> ELSE <<>>)
         \o UpZones(Tail(items))

\* history: one record per pagination loop; the loop's first request has number 1
DrainPage(kind, zone, req, items, next) ==
    IF req = 1
    THEN Append(drains, [kind |-> kind, zone |-> zone, requests |-> 1,
                         items |-> items, done |-> next = 0])
    ELSE [drains EXCEPT ![Len(drains)] =
             [@ EXCEPT !.requests = @ + 1, !.items = @ \o items, !.done = next = 0]]

\* a response without "items" where the loop reads response["items"]: KeyError
DrainKeyError(kind, zone, req) ==
    IF req = 1
    THEN Append(drains, [kind |-> kind, zone |-> zone, requests |-> 1,
                         items |-> <<>>, done |-> FALSE])
    ELSE [drains EXCEPT ![Len(drains)] = [@ EXCEPT !.requests = @ + 1]]

Call(api, zone, req) == [api |-> api, zone |-> zone, page |-> req]

\* one iteration of get_zone_info's while loop
ZonesPage ==
    /\ pc = "zones"
    /\ request # 0
    /\ LET response == Execute(zonePages, request) IN
       /\ calls' = Append(calls, Call("zones", "", request))
       /\ IF ~response.hasItems
          THEN /\ pc' = "failed"
               /\ error' = "KeyError"
               /\ drains' = DrainKeyError("zones", "", request)
               /\ UNCHANGED <<request, zone_list>>
          ELSE /\ zone_list' = zone_list \o UpZones(response.items)
               /\ request' = ListNext(response)
               /\ drains' = DrainPage("zones", "", request, response.items,
                                      ListNext(response))
               /\ UNCHANGED <<pc, error>>
    /\ UNCHANGED <<config, zonePages, machinePages, acceleratorPages, skuCatalog,
                   compute_zones, zi, available_zones, accelerator_list, ai, quote,
                   pricing_info>>

\* main's zone filter: a non-empty config zone list keeps the zones it names
InFilter(zone, filter) == \E i \in 1..Len(filter) : filter[i] = zone

FilterZones(zones, filter) ==
    IF filter # <<>>
    THEN SelectSeq(zones, LAMBDA z : InFilter(z.zone, filter))
    ELSE zones

\* get_zone_info returns and main assigns compute_zones
ZonesReturn ==
    /\ pc = "zones"
    /\ request = 0
    /\ compute_zones' = FilterZones(zone_list, config.zone)
    /\ pc' = "validate"
    /\ UNCHANGED <<config, zonePages, machinePages, acceleratorPages, skuCatalog,
                   error, request, zone_list, zi, available_zones, accelerator_list,
                   ai, quote, pricing_info, calls, drains>>

\* main calls check_gpu_config, then builds the matcher's first request
CheckGpuConfig ==
    /\ pc = "validate"
    /\ LET raised == check_gpu_config(config) IN
       IF raised # ""
       THEN /\ pc' = "failed"
            /\ error' = raised
            /\ UNCHANGED <<zi, request>>
       ELSE /\ pc' = "machines"
            /\ zi' = 1
            /\ request' = IF compute_zones = <<>> THEN 0 ELSE 1
            /\ UNCHANGED error
    /\ UNCHANGED <<config, zonePages, machinePages, acceleratorPages, skuCatalog,
                   zone_list, compute_zones, available_zones, accelerator_list, ai,
                   quote, pricing_info, calls, drains>>

(***************************************************************************)
(* check_machine_type_and_accelerator                                      *)
(***************************************************************************)
\* a machine entry is [name, hasAccelerators, accelerators]: "accelerators" in
\* machine, and the guestAcceleratorType of each of its entries (never an empty
\* list here: machine["accelerators"][0] is then an IndexError). guestCpus and
\* description are copied through unread and left out.
AcceleratorAttached(machine, machine_type, gpu_type) ==
    /\ machine.hasAccelerators
    /\ machine.name = machine_type
    /\ machine.accelerators[1] = gpu_type

MachineMatches(machine, machine_type) == machine.name = machine_type

MachineCandidate(machine, zone, attached) ==
    [machine_type |-> machine.name, region |-> zone.region, zone |-> zone.zone,
     accelerators |-> IF attached THEN machine.accelerators ELSE <<>>]

\* the body of "for machine in response['items']", over the items of one page
RECURSIVE MatchingMachines(_, _, _, _)
MatchingMachines(items, zone, machine_type, gpu_type) ==
    IF items = <<>> THEN <<>>
    ELSE (IF AcceleratorAttached(items[1], machine_type, gpu_type)
          THEN <<MachineCandidate(items[1], zone, TRUE)>>
          ELSE IF MachineMatches(items[1], machine_type)
          THEN <<MachineCandidate(items[1], zone, FALSE)>>
          ELSE <<>>)
         \o MatchingMachines(Tail(items), zone, machine_type, gpu_type)

\* one iteration of the while loop for compute_zones[zi]; when the listing is
\* exhausted the for loop moves to the next zone and builds its first request
MachineTypesPage ==
    /\ pc = "machines"
    /\ zi <= Len(compute_zones)
    /\ LET zone == compute_zones[zi]
           response == Execute(machinePages[zone.zone], request) IN
       /\ calls' = Append(calls, Call("machineTypes", zone.zone, request))
       /\ IF ~response.hasItems
          THEN /\ pc' = "failed"
               /\ error' = "KeyError"
               /\ drains' = DrainKeyError("machineTypes", zone.zone, request)
               /\ UNCHANGED <<request, zi, available_zones>>
          ELSE /\ available_zones' = available_zones \o
                     MatchingMachines(response.items, zone, config.machine_type,
                                      config.gpu_type)
               /\ drains' = DrainPage("machineTypes", zone.zone, request,
                                      response.items, ListNext(response))
               /\ IF ListNext(response) # 0
                  THEN /\ request' = ListNext(response)
                       /\ zi' = zi
                  ELSE /\ request' = IF zi < Len(compute_zones) THEN 1 ELSE 0
                       /\ zi' = zi + 1
               /\ UNCHANGED <<pc, error>>
    /\ UNCHANGED <<config, zonePages, machinePages, acceleratorPages, skuCatalog,
                   zone_list, compute_zones, accelerator_list, ai, quote,
                   pricing_info>>

\* the for loop is over: raise when nothing matched, else return to main, which
\* calls get_accelerator_quota
MachineTypesReturn ==
    /\ pc = "machines"
    /\ zi > Len(compute_zones)
    /\ IF available_zones = <<>>
       THEN /\ pc' = "failed"
            /\ error' = "NotFoundError"
            /\ UNCHANGED <<zi, request>>
       ELSE /\ pc' = "accelerators"
            /\ zi' = 1
            /\ request' = 1
            /\ UNCHANGED error
    /\ UNCHANGED <<config, zonePages, machinePages, acceleratorPages, skuCatalog,
                   zone_list, compute_zones, available_zones, accelerator_list, ai,
                   quote, pricing_info, calls, drains>>

(***************************************************************************)
(* get_accelerator_quota                                                   *)
(***************************************************************************)
\* an accelerator entry is [name, maximumCardsPerInstance] (description left out)
AcceleratorNamed(accelerator, gpu_type) == accelerator.name = gpu_type

QuotaSufficientAtLeastOne(requested_gpus, accelerator) ==
    1 <= accelerator.maximumCardsPerInstance

QuotaSufficient(requested_gpus, accelerator) ==
    requested_gpus <= accelerator.maximumCardsPerInstance

QuotaCandidate(i, accelerator) ==
    [region |-> i.region, zone |-> i.zone, machine_type |-> i.machine_type,
     name |-> accelerator.name, max_gpus |-> accelerator.maximumCardsPerInstance]

\* the body of "for accelerator in response['items']", over the items of one page
RECURSIVE QuotaCandidates(_, _, _, _)
QuotaCandidates(items, i, gpu_type, requested_gpus) ==
    IF items = <<>> THEN <<>>
    ELSE (IF AcceleratorNamed(items[1], gpu_type)
             /\ QuotaSufficient(requested_gpus, items[1])
          THEN <<QuotaCandidate(i, items[1])>>
          ELSE <<>>)
         \o QuotaCandidates(Tail(items), i, gpu_type, requested_gpus)

\* one iteration of the while loop for available_zones[zi]; a response without
\* "items" is skipped (line 96)
AcceleratorTypesPage ==
    /\ pc = "accelerators"
    /\ zi <= Len(available_zones)
    /\ LET i == available_zones[zi]
           response == Execute(acceleratorPages[i.zone], request)
           items == IF response.hasItems THEN response.items ELSE <<>> IN
       /\ calls' = Append(calls, Call("acceleratorTypes", i.zone, request))
       /\ accelerator_list' = accelerator_list \o
              QuotaCandidates(items, i, config.gpu_type, config.number_of_gpus)
       /\ drains' = DrainPage("acceleratorTypes", i.zone, request, items,
                              ListNext(response))
       /\ IF ListNext(response) # 0
          THEN /\ request' = ListNext(response)
               /\ zi' = zi
          ELSE /\ request' = IF zi < Len(available_zones) THEN 1 ELSE 0
               /\ zi' = zi + 1
    /\ UNCHANGED <<config, zonePages, machinePages, acceleratorPages, skuCatalog,
                   pc, error, zone_list, compute_zones, available_zones, ai, quote,
                   pricing_info>>

\* the for loop is over: raise when no candidate has the quota, else return to
\* main, which starts its pricing loop
AcceleratorTypesReturn ==
    /\ pc = "accelerators"
    /\ zi > Len(available_zones)
    /\ IF accelerator_list = <<>>
       THEN /\ pc' = "failed"
            /\ error' = "NotFoundError"
            /\ UNCHANGED ai
       ELSE /\ pc' = "pricing"
            /\ ai' = 1
            /\ UNCHANGED error
    /\ UNCHANGED <<config, zonePages, machinePages, acceleratorPages, skuCatalog,
                   request, zone_list, compute_zones, zi, available_zones,
                   accelerator_list, quote, pricing_info, calls, drains>>

(***************************************************************************)
(* get_pricing_info                                                        *)
(***************************************************************************)
NanosPerUnit == 1000000000

\* float(nanos) / 1e9 as an exact decimal
Float(nanos) == [units |-> nanos \div NanosPerUnit, nanos |-> nanos % NanosPerUnit]

Add(a, b) ==
    [units |-> a.units + b.units + ((a.nanos + b.nanos) \div NanosPerUnit),
     nanos |-> (a.nanos + b.nanos) % NanosPerUnit]

Times(a, k) ==
    [units |-> a.units * k + ((a.nanos * k) \div NanosPerUnit),
     nanos |-> (a.nanos * k) % NanosPerUnit]

LessThan(a, b) == a.units < b.units \/ (a.units = b.units /\ a.nanos < b.nanos)

\* a SKU is [resourceFamily, description, serviceRegions, tiered_rates]:
\* tiered_rates holds unitPrice.nanos of each tier of pricingInfo[0]
MachineSkuMatches(sku, machine_type, zone) ==
    /\ sku.resourceFamily = "Compute"
    /\ StartsWith(Chars(sku.description), Chars("Compute ") \o Chars(machine_type))
    /\ zone \in sku.serviceRegions

GpuSkuMatches(sku, gpu_type, zone) ==
    /\ sku.resourceFamily = "Compute"
    /\ Contains(Chars(sku.description), Chars(gpu_type))
    /\ Contains(Chars(sku.description), Chars("GPU"))
    /\ zone \in sku.serviceRegions

\* "for tier in tiered_rates: price = ...; break": the first tier, if there is one
FirstTier(sku, price) ==
    IF sku.tiered_rates = <<>> THEN price ELSE Float(sku.tiered_rates[1])

\* the loop "for sku in skus" from SKU number k on, price being machine_price so far
RECURSIVE MachinePriceScan(_, _, _, _, _)
MachinePriceScan(skus, k, machine_type, zone, price) ==
    IF k > Len(skus) THEN price
    ELSE MachinePriceScan(skus, k + 1, machine_type, zone,
                          IF MachineSkuMatches(skus[k], machine_type, zone)
                          THEN FirstTier(skus[k], price) ELSE price)

RECURSIVE GpuPriceScan(_, _, _, _, _)
GpuPriceScan(skus, k, gpu_type, zone, price) ==
    IF k > Len(skus) THEN price
    ELSE GpuPriceScan(skus, k + 1, gpu_type, zone,
                      IF GpuSkuMatches(skus[k], gpu_type, zone)
                      THEN FirstTier(skus[k], price) ELSE price)

get_pricing_info(skus, machine_type, gpu_type, zone) ==
    [machine_price |-> MachinePriceScan(skus, 1, machine_type, zone, Float(0)),
     gpu_price |-> GpuPriceScan(skus, 1, gpu_type, zone, Float(0))]

\* one iteration of main's loop "for acc in accelerators": the catalog is fetched
\* inside get_pricing_info, and the two prices are stored on the candidate
PricingInfo ==
    /\ pc = "pricing"
    /\ ai <= Len(accelerator_list)
    /\ LET acc == accelerator_list[ai]
           prices == get_pricing_info(skuCatalog, acc.machine_type, acc.name, acc.zone)
       IN  /\ calls' = Append(calls, Call("skus", "", 1))
           /\ quote' = prices
           /\ accelerator_list' =
                  [accelerator_list EXCEPT ![ai] = acc @@ prices]
           /\ ai' = ai + 1
    /\ UNCHANGED <<config, zonePages, machinePages, acceleratorPages, skuCatalog,
                   pc, error, request, zone_list, compute_zones, zi, available_zones,
                   pricing_info, drains>>

(***************************************************************************)
(* process_pricing                                                         *)
(***************************************************************************)
TotalHourlyCostOneCard(acc) == Add(acc.machine_price, acc.gpu_price)

TotalHourlyCost(acc) == Add(acc.machine_price, Times(acc.gpu_price, acc.max_gpus))

RankedOption(acc) ==
    [region |-> acc.region, zone |-> acc.zone, machine_type |-> acc.machine_type,
     gpu_type |-> acc.name, hourly_cost |-> TotalHourlyCost(acc),
     machine_cost |-> acc.machine_price, gpu_cost |-> acc.gpu_price,
     max_gpus |-> acc.max_gpus]

\* sorted(..., key=itemgetter("hourly_cost")) is stable: an element goes behind
\* every element already placed whose key is not greater
InsertBeforeEqual(out, x) ==
    LET before == {k \in 0..Len(out) :
                      \A j \in 1..k : LessThan(out[j].hourly_cost, x.hourly_cost)}
        at == CHOOSE k \in before : \A j \in before : j <= k
    IN  SubSeq(out, 1, at) \o <<x>> \o SubSeq(out, at + 1, Len(out))

InsertByHourlyCost(out, x) ==
    LET before == {k \in 0..Len(out) :
                      \A j \in 1..k : ~LessThan(x.hourly_cost, out[j].hourly_cost)}
        at == CHOOSE k \in before : \A j \in before : j <= k
    IN  SubSeq(out, 1, at) \o <<x>> \o SubSeq(out, at + 1, Len(out))

RECURSIVE SortedByHourlyCost(_, _)
SortedByHourlyCost(records, out) ==
    IF records = <<>> THEN out
    ELSE SortedByHourlyCost(Tail(records), InsertByHourlyCost(out, records[1]))

process_pricing(accelerators) ==
    SortedByHourlyCost([i \in 1..Len(accelerators) |-> RankedOption(accelerators[i])],
                       <<>>)

\* main's loop is over: process_pricing, then the top 3 are logged
ProcessPricing ==
    /\ pc = "pricing"
    /\ ai > Len(accelerator_list)
    /\ pricing_info' = process_pricing(accelerator_list)
    /\ pc' = "done"
    /\ UNCHANGED <<config, zonePages, machinePages, acceleratorPages, skuCatalog,
                   error, request, zone_list, compute_zones, zi, available_zones,
                   accelerator_list, ai, quote, calls, drains>>

(***************************************************************************)
(* Inputs: the request and the catalogs a run is started with.             *)
(***************************************************************************)
\* the sequences of at most n items of E; names are unique within a listing
ItemSeqs(E, n) ==
    {s \in UNION {[1..k -> E] : k \in 0..n} :
        \A i, j \in 1..Len(s) : i < j => s[i].name # s[j].name}

\* only the last page has no continuation token
Paged(ps) ==
    [k \in 1..Len(ps) |->
        [hasItems |-> ps[k].hasItems, items |-> ps[k].items,
         nextPageToken |-> IF k < Len(ps) THEN k + 1 ELSE 0]]

Page(items) == [hasItems |-> TRUE, items |-> items]

RECURSIVE SumTo(_, _)
SumTo(f, k) == IF k = 0 THEN 0 ELSE f[k] + SumTo(f, k - 1)

\* the items s cut into pages of the given sizes; a page of size 0 carries an
\* empty "items" or, where absent says so, no "items" key
Cut(s, sizes, absent) ==
    [k \in 1..Len(sizes) |->
        [hasItems |-> ~(sizes[k] = 0 /\ absent[k]),
         items |-> SubSeq(s, SumTo(sizes, k - 1) + 1, SumTo(sizes, k))]]

\* every listing of 1..MaxPages pages holding at most MaxItems items of E
Listings(E) ==
    UNION {UNION {{Paged(Cut(s, sizes, absent)) :
                      absent \in {a \in [1..n -> BOOLEAN] :
                                     \A k \in 1..n : a[k] => sizes[k] = 0}} :
                     sizes \in {z \in [1..n -> 0..Len(s)] : SumTo(z, n) = Len(s)}} :
              <<s, n>> \in ItemSeqs(E, MaxItems) \X (1..MaxPages)}

CatalogZones == {ZoneA, ZoneB, ZoneD}

ZoneEntries == [name : CatalogZones, status : {"UP", "DOWN"}]

Machine(name, accelerators) ==
    [name |-> name, hasAccelerators |-> accelerators # <<>>,
     accelerators |-> accelerators]

MachineEntries ==
    {Machine(A2_HIGHGPU_1G, <<TESLA_A100>>), Machine(A2_HIGHGPU_1G, <<>>),
     Machine(A2_HIGHGPU_1G, <<TESLA_T4>>), Machine(N1_STANDARD_4, <<>>),
     Machine(N1_STANDARD_8, <<>>)}

Accelerator(name, cards) == [name |-> name, maximumCardsPerInstance |-> cards]

AcceleratorEntries ==
    {Accelerator(TESLA_A100, m) : m \in 1..MaxGpus}
    \cup {Accelerator(TESLA_T4, MaxGpus), Accelerator(TESLA_V100, 1)}

Config(machine_type, number_of_gpus, zone) ==
    [machine_type |-> machine_type, gpu_type |-> TESLA_A100,
     number_of_gpus |-> number_of_gpus, zone |-> zone]

\* requests without a zone filter, one with a filter naming a zone the catalog
\* does not hold, and one for an a2 machine type that is not a2-highgpu
Configs ==
    {Config(m, n, <<>>) : m \in {A2_HIGHGPU_1G, N1_STANDARD_4}, n \in 1..MaxGpus}
    \cup {Config(A2_HIGHGPU_1G, 1, <<ZoneA, ZoneC>>), Config(A2_MEGAGPU_16G, 1, <<>>)}

BaseZonePages ==
    Paged(<<Page(<<[name |-> ZoneA, status |-> "UP"]>>),
            Page(<<[name |-> ZoneB, status |-> "UP"]>>)>>)

\* us1-a lists both requested machine types, us1-b the a2 one, eu2-d the n1 one
BaseMachinePages ==
    [z \in CatalogZones |->
        IF z = ZoneA
        THEN Paged(<<Page(<<Machine(A2_HIGHGPU_1G, <<TESLA_A100>>),
                            Machine(N1_STANDARD_4, <<>>)>>)>>)
        ELSE IF z = ZoneB
        THEN Paged(<<Page(<<Machine(A2_HIGHGPU_1G, <<TESLA_A100>>)>>)>>)
        ELSE Paged(<<Page(<<Machine(N1_STANDARD_8, <<>>)>>),
                     Page(<<Machine(N1_STANDARD_4, <<>>)>>)>>)]

\* us1-a offers one A100 per instance, us1-b MaxGpus; eu2-d has no accelerators
\* and its response carries no "items"
BaseAcceleratorPages ==
    [z \in CatalogZones |->
        IF z = ZoneA
        THEN Paged(<<Page(<<Accelerator(TESLA_T4, MaxGpus)>>),
                     Page(<<Accelerator(TESLA_A100, 1)>>)>>)
        ELSE IF z = ZoneB
        THEN Paged(<<Page(<<Accelerator(TESLA_A100, MaxGpus)>>)>>)
        ELSE Paged(<<[hasItems |-> FALSE, items |-> <<>>]>>)]

Sku(family, description, regions, tiers) ==
    [resourceFamily |-> family, description |-> description,
     serviceRegions |-> regions, tiered_rates |-> tiers]

\* a2-highgpu-1g costs 2.0 in us1-a and 0.5 in us1-b, an A100 1.0 in both
BaseSkus ==
    <<Sku("Compute", A2_MACHINE_SKU, {ZoneA}, <<2000000000>>),
      Sku("Compute", A100_GPU_SKU, {ZoneA, ZoneB},
          <<1000000000, 500000000>>),
      Sku("Compute", A2_MACHINE_SKU, {ZoneB}, <<500000000>>)>>

NoQuote == [machine_price |-> Float(0), gpu_price |-> Float(0)]

\* main has built the compute client and get_zone_info its first request
Start ==
    /\ pc = "zones"
    /\ error = ""
    /\ request = 1
    /\ zone_list = <<>>
    /\ compute_zones = <<>>
    /\ zi = 0
    /\ available_zones = <<>>
    /\ accelerator_list = <<>>
    /\ ai = 0
    /\ quote = NoQuote
    /\ pricing_info = <<>>
    /\ calls = <<>>
    /\ drains = <<>>

\* every zone listing within the bounds, the other catalogs fixed
InitZoneListings ==
    /\ config \in Configs
    /\ zonePages \in Listings(ZoneEntries)
    /\ machinePages = BaseMachinePages
    /\ acceleratorPages = BaseAcceleratorPages
    /\ skuCatalog = BaseSkus
    /\ Start

\* every machine-type listing of us1-a within the bounds
InitMachineListings ==
    /\ config \in {c \in Configs : c.zone = <<>>}
    /\ zonePages = BaseZonePages
    /\ machinePages \in {[BaseMachinePages EXCEPT ![ZoneA] = l] :
                            l \in Listings(MachineEntries)}
    /\ acceleratorPages = BaseAcceleratorPages
    /\ skuCatalog = BaseSkus
    /\ Start

\* every accelerator-type listing of us1-a within the bounds
InitAcceleratorListings ==
    /\ config \in {c \in Configs : c.zone = <<>>}
    /\ zonePages = BaseZonePages
    /\ machinePages = BaseMachinePages
    /\ acceleratorPages \in {[BaseAcceleratorPages EXCEPT ![ZoneA] = l] :
                                l \in Listings(AcceleratorEntries)}
    /\ skuCatalog = BaseSkus
    /\ Start

Init == InitZoneListings \/ InitMachineListings \/ InitAcceleratorListings

Next ==
    \/ ZonesPage
    \/ ZonesReturn
    \/ CheckGpuConfig
    \/ MachineTypesPage
    \/ MachineTypesReturn
    \/ AcceleratorTypesPage
    \/ AcceleratorTypesReturn
    \/ PricingInfo
    \/ ProcessPricing

Spec == Init /\ [][Next]_vars

(***************************************************************************)
(* check_gpu_config on its own: every a2-highgpu-<k>g with up to MaxDigits *)
(* digits, and the two machine types that are not of that form.            *)
(***************************************************************************)
MaxCount == 12     \* requested GPU counts handed to check_gpu_config on its own

A2HighGpu(digits) == Str(A2_HIGHGPU_ \o digits \o <<"g">>)

ConfigInputs ==
    {Config(m, n, <<>>) :
        m \in {A2HighGpu(d) : d \in DigitStrings} \cup {N1_STANDARD_4, A2_MEGAGPU_16G},
        n \in 0..MaxCount}

Idle ==
    /\ error = ""
    /\ request = 0
    /\ zone_list = <<>>
    /\ compute_zones = <<>>
    /\ zi = 0
    /\ available_zones = <<>>
    /\ quote = NoQuote
    /\ pricing_info = <<>>
    /\ calls = <<>>
    /\ drains = <<>>
    /\ zonePages = BaseZonePages
    /\ machinePages = BaseMachinePages
    /\ acceleratorPages = BaseAcceleratorPages

InitConfig ==
    /\ config \in ConfigInputs
    /\ pc = "validate"
    /\ skuCatalog = BaseSkus
    /\ accelerator_list = <<>>
    /\ ai = 0
    /\ Idle

NextConfig == CheckGpuConfig

SpecConfig == InitConfig /\ [][NextConfig]_vars

(***************************************************************************)
(* process_pricing on its own: every sequence of up to MaxCandidates       *)
(* priced candidates.                                                      *)
(***************************************************************************)
PricedCandidates ==
    {[region |-> Region(z), zone |-> z, machine_type |-> A2_HIGHGPU_1G,
      name |-> TESLA_A100, max_gpus |-> m, machine_price |-> Float(p),
      gpu_price |-> Float(500000000)] :
        z \in {ZoneA, ZoneB}, m \in 1..MaxGpus, p \in {500000000, 1000000000}}

InitRank ==
    /\ config = Config(A2_HIGHGPU_1G, 1, <<>>)
    /\ pc = "pricing"
    /\ skuCatalog = BaseSkus
    /\ accelerator_list \in UNION {[1..k -> PricedCandidates] : k \in 1..MaxCandidates}
    /\ ai = Len(accelerator_list) + 1
    /\ Idle

NextRank == ProcessPricing

SpecRank == InitRank /\ [][NextRank]_vars

(***************************************************************************)
(* get_pricing_info on its own: every catalog of up to MaxSkus SKUs, for   *)
(* the candidate (a2-highgpu-1g, nvidia-tesla-a100, us1-a).                *)
(***************************************************************************)
SkuEntries ==
    {Sku("Compute", d, {z}, t) :
        d \in {A2_MACHINE_SKU, A100_GPU_SKU},
        z \in {ZoneA, ZoneB},
        t \in {<<>>, <<0>>, <<1>>, <<2, 1>>}}
    \cup {Sku("Storage", A2_MACHINE_SKU, {ZoneA}, <<1>>)}

InitPricing ==
    /\ config = Config(A2_HIGHGPU_1G, 1, <<>>)
    /\ pc = "pricing"
    /\ skuCatalog \in UNION {[1..k -> SkuEntries] : k \in 0..MaxSkus}
    /\ accelerator_list = <<[region |-> Region(ZoneA), zone |-> ZoneA,
                             machine_type |-> A2_HIGHGPU_1G, name |-> TESLA_A100,
                             max_gpus |-> 1]>>
    /\ ai = 1
    /\ Idle

NextPricing == PricingInfo

SpecPricing == InitPricing /\ [][NextPricing]_vars

(***************************************************************************)
(* What the catalogs hold, read off the pages themselves.                  *)
(***************************************************************************)
RECURSIVE CatalogItems(_)
CatalogItems(pages) ==
    IF pages = <<>> THEN <<>>
    ELSE (IF pages[1].hasItems THEN pages[1].items ELSE <<>>)
         \o CatalogItems(Tail(pages))

Range(s) == {s[k] : k \in 1..Len(s)}

ZoneEnumeratedUp(z) ==
    /\ \E e \in Range(CatalogItems(zonePages)) : e.name = z /\ e.status = "UP"
    /\ config.zone = <<>> \/ z \in Range(config.zone)

ZoneListsMachine(z) ==
    \E m \in Range(CatalogItems(machinePages[z])) : m.name = config.machine_type

ZoneOffersCards(z) ==
    \E a \in Range(CatalogItems(acceleratorPages[z])) :
        /\ a.name = config.gpu_type
        /\ a.maximumCardsPerInstance >= config.number_of_gpus

SkuCalls == {k \in 1..Len(calls) : calls[k].api = "skus"}

\* get_zone_info has returned and main has assigned compute_zones
ZonesHanded ==
    \/ pc \in {"validate", "machines", "accelerators", "pricing", "done"}
    \/ pc = "failed" /\ drains # <<>> /\ drains[1].done

\* C1: in a run of main the configuration check comes before any catalog or
\* billing call: when the run fails with the configuration error, no list request
\* has been issued.
C1_ValidatedBeforeAnyCall == error = "ConfigurationError" => calls = <<>>

\* the digits of v, zero-padded to len characters
DigitsOf(v, len) ==
    [i \in 1..len |-> Digits[((v \div (10 ^ (len - i))) % 10) + 1]]

\* the number that the digits d spell
NumberOf(d) == CHOOSE v \in 0..(10 ^ Len(d) - 1) : DigitsOf(v, Len(d)) = d

\* C2: check_gpu_config passes a2-highgpu-<k>g exactly when number_of_gpus = k and
\* fails with the configuration error otherwise; it passes every machine type that
\* does not start with "a2"; it issues no catalog call.
C2_Validation ==
    pc # "validate" =>
        /\ \A d \in DigitStrings :
              config.machine_type = A2HighGpu(d) =>
                  IF config.number_of_gpus = NumberOf(d)
                  THEN pc = "machines" /\ error = ""
                  ELSE pc = "failed" /\ error = "ConfigurationError"
        /\ config.machine_type = N1_STANDARD_4 => pc = "machines" /\ error = ""
        /\ calls = <<>>

\* a two-digit a2-highgpu machine type with the matching count has passed
C2_Witness ==
    /\ pc = "machines"
    /\ config.machine_type = A2HighGpu(<<"1", "2">>)
    /\ config.number_of_gpus = 12

\* C3: every quota candidate and every ranked option is in a zone that was
\* enumerated UP (and is in the zone filter when one is given), that lists a
\* machine type named as requested, and that offers the requested GPU type with
\* at least the requested number of cards per instance.
C3_RankedZonesPassFilters ==
    \A r \in Range(accelerator_list) \cup Range(pricing_info) :
        /\ r.zone \in CatalogZones
        /\ ZoneEnumeratedUp(r.zone)
        /\ ZoneListsMachine(r.zone)
        /\ ZoneOffersCards(r.zone)

\* a run that ranked one zone and dropped another for its quota
C3_Witness ==
    /\ pc = "done"
    /\ pricing_info # <<>>
    /\ \E z \in CatalogZones :
          /\ ZoneEnumeratedUp(z)
          /\ ZoneListsMachine(z)
          /\ ~ZoneOffersCards(z)
          /\ \A r \in Range(pricing_info) : r.zone # z

\* the pages of the listing a pagination loop drains
DrainedListing(d) ==
    IF d.kind = "zones" THEN zonePages
    ELSE IF d.kind = "machineTypes" THEN machinePages[d.zone]
    ELSE acceleratorPages[d.zone]

StageOf(p) ==
    CASE p = "zones" -> 1
      [] p = "validate" -> 2
      [] p \in {"machines", "machineTypes"} -> 3
      [] p \in {"accelerators", "acceleratorTypes"} -> 4
      [] p = "pricing" -> 5
      [] OTHER -> 6

\* C4: every pagination loop the run has left issued exactly as many requests as
\* its listing has pages, ended normally, and visited the items of all pages in
\* page order and in-page order, also when a page carries no items.
C4_Pagination ==
    \A k \in 1..Len(drains) :
        (k < Len(drains) \/ StageOf(pc) > StageOf(drains[k].kind)) =>
            /\ drains[k].done
            /\ drains[k].requests = Len(DrainedListing(drains[k]))
            /\ drains[k].items = CatalogItems(DrainedListing(drains[k]))

\* the matcher was entered: the zones were handed over and the configuration passed
MatcherEntered == ZonesHanded /\ error \notin {"ConfigurationError", "ValueError"}

CandidateZones == {z.zone : z \in {c \in Range(compute_zones) : ZoneListsMachine(c.zone)}}

\* C5: when no enumerated zone lists the requested machine type, or no candidate
\* zone offers the GPU type with enough cards, the run ends with the not-found
\* error after scanning every zone of the stage, without a pricing request and
\* without a ranking.
C5_NotFound ==
    (/\ pc \in Terminal
     /\ MatcherEntered
     /\ CandidateZones = {} \/ \A z \in CandidateZones : ~ZoneOffersCards(z)) =>
        /\ pc = "failed"
        /\ error = "NotFoundError"
        /\ SkuCalls = {}
        /\ pricing_info = <<>>
        /\ Cardinality({k \in 1..Len(drains) : drains[k].kind = "machineTypes"})
               = Len(compute_zones)

\* hourly_cost is non-decreasing along s
NonDecreasing(s) ==
    \A i, j \in 1..Len(s) : i < j => ~LessThan(s[j].hourly_cost, s[i].hourly_cost)

\* C6: process_pricing returns one ranked option per candidate, a permutation of
\* its input that is non-decreasing by hourly_cost and keeps candidates of equal
\* hourly_cost in their input order.
C6_StableSort ==
    pc = "done" =>
        /\ Len(pricing_info) = Len(accelerator_list)
        /\ NonDecreasing(pricing_info)
        /\ \E p \in Permutations(1..Len(accelerator_list)) :
              /\ \A i \in 1..Len(pricing_info) :
                    /\ pricing_info[i].zone = accelerator_list[p[i]].zone
                    /\ pricing_info[i].max_gpus = accelerator_list[p[i]].max_gpus
                    /\ pricing_info[i].machine_cost = accelerator_list[p[i]].machine_price
                    /\ pricing_info[i].gpu_cost = accelerator_list[p[i]].gpu_price
                    /\ pricing_info[i].machine_type = accelerator_list[p[i]].machine_type
                    /\ pricing_info[i].gpu_type = accelerator_list[p[i]].name
                    /\ pricing_info[i].region = accelerator_list[p[i]].region
              /\ \A i, j \in 1..Len(pricing_info) :
                    (i < j /\ pricing_info[i].hourly_cost = pricing_info[j].hourly_cost)
                        => p[i] < p[j]

\* a ranking that moved a candidate forward and holds a tie between two zones
C6_Witness ==
    /\ pc = "done"
    /\ Len(pricing_info) = 3
    /\ pricing_info[1].zone # accelerator_list[1].zone
    /\ pricing_info[2].hourly_cost = pricing_info[3].hourly_cost
    /\ pricing_info[2].zone # pricing_info[3].zone

\* the end-to-end scenario: one UP zone, a2-highgpu-1g with one A100
Scenario ==
    /\ config = Config(A2_HIGHGPU_1G, 1, <<>>)
    /\ zonePages = Paged(<<Page(<<[name |-> ZoneA, status |-> "UP"]>>)>>)
    /\ machinePages = BaseMachinePages
    /\ acceleratorPages = BaseAcceleratorPages
    /\ skuCatalog = BaseSkus

\* C7: every ranked option has hourly_cost = machine_cost + gpu_cost * max_gpus,
\* max_gpus being the cards per instance of a matched offering of its zone and
\* the two costs the prices resolved for its machine type, GPU type and zone; the
\* scenario (one UP zone, one card per instance, machine price 2, GPU price 1)
\* yields exactly one ranked option, of hourly cost 3.
C7_HourlyCost ==
    /\ \A r \in Range(pricing_info) :
          /\ r.hourly_cost = Add(r.machine_cost, Times(r.gpu_cost, r.max_gpus))
          /\ \E a \in Range(CatalogItems(acceleratorPages[r.zone])) :
                /\ a.name = r.gpu_type
                /\ a.maximumCardsPerInstance = r.max_gpus
          /\ r.machine_cost =
                get_pricing_info(skuCatalog, r.machine_type, r.gpu_type, r.zone).machine_price
          /\ r.gpu_cost =
                get_pricing_info(skuCatalog, r.machine_type, r.gpu_type, r.zone).gpu_price
    /\ (Scenario /\ pc \in Terminal) =>
          /\ pc = "done"
          /\ Len(pricing_info) = 1
          /\ pricing_info[1].zone = ZoneA
          /\ pricing_info[1].machine_cost = [units |-> 2, nanos |-> 0]
          /\ pricing_info[1].gpu_cost = [units |-> 1, nanos |-> 0]
          /\ pricing_info[1].max_gpus = 1
          /\ pricing_info[1].hourly_cost = [units |-> 3, nanos |-> 0]

\* a finished run that ranked an offering with more cards than were requested
C7_Witness ==
    /\ pc = "done"
    /\ \E r \in Range(pricing_info) :
          /\ r.max_gpus > config.number_of_gpus
          /\ r.gpu_cost # Float(0)
          /\ r.hourly_cost # Add(r.machine_cost, Times(r.gpu_cost, config.number_of_gpus))

\* the catalog zones that are UP and pass the filter, in catalog order
ExpectedZones ==
    LET up == SelectSeq(CatalogItems(zonePages), LAMBDA e : e.status = "UP")
        kept == IF config.zone = <<>> THEN up
                ELSE SelectSeq(up, LAMBDA e : e.name \in Range(config.zone))
    IN  [k \in 1..Len(kept) |->
            [region |-> Str(SubSeq(Chars(kept[k].name), 1, Len(kept[k].name) - 2)),
             zone |-> kept[k].name]]

\* C8: the zones handed to the matcher are exactly the catalog zones whose status
\* is UP (and that the filter names, when one is given), in catalog order, each
\* with region = zone name without its last two characters; filter names the
\* catalog does not hold raise no error.
C8_ZonesHanded ==
    ZonesHanded =>
        /\ compute_zones = ExpectedZones
        /\ pc = "validate" => error = ""

\* a filtered run whose catalog held a zone that was dropped
C8_Witness ==
    /\ pc = "validate"
    /\ config.zone = <<ZoneA, ZoneC>>
    /\ Len(compute_zones) = 1
    /\ compute_zones[1] = [region |-> "us1", zone |-> ZoneA]
    /\ Len(CatalogItems(zonePages)) = 2
    /\ CatalogItems(zonePages)[1].name = ZoneB

\* the SKUs, in catalog order, that match and carry a tier
MatchingMachineSkus ==
    {k \in 1..Len(skuCatalog) :
        /\ skuCatalog[k].resourceFamily = "Compute"
        /\ StartsWith(Chars(skuCatalog[k].description),
                      Chars("Compute ") \o Chars(accelerator_list[1].machine_type))
        /\ accelerator_list[1].zone \in skuCatalog[k].serviceRegions
        /\ skuCatalog[k].tiered_rates # <<>>}

MatchingGpuSkus ==
    {k \in 1..Len(skuCatalog) :
        /\ skuCatalog[k].resourceFamily = "Compute"
        /\ Contains(Chars(skuCatalog[k].description), Chars(accelerator_list[1].name))
        /\ Contains(Chars(skuCatalog[k].description), Chars("GPU"))
        /\ accelerator_list[1].zone \in skuCatalog[k].serviceRegions
        /\ skuCatalog[k].tiered_rates # <<>>}

FirstOf(S) == CHOOSE k \in S : \A j \in S : k <= j

\* C9: the machine price is the first tier of the first matching SKU in catalog
\* order, and so is the GPU price; later matching SKUs do not change them; a
\* price is 0 when no SKU with a tier matches.
C9_FirstMatch ==
    ai = 2 =>
        /\ quote.machine_price =
              IF MatchingMachineSkus = {} THEN Float(0)
              ELSE Float(skuCatalog[FirstOf(MatchingMachineSkus)].tiered_rates[1])
        /\ quote.gpu_price =
              IF MatchingGpuSkus = {} THEN Float(0)
              ELSE Float(skuCatalog[FirstOf(MatchingGpuSkus)].tiered_rates[1])

\* C10: a run fetches the pricing SKU catalog at most once, however many
\* candidates it prices.
C10_SingleFetch == Cardinality(SkuCalls) <= 1

====
